---- MODULE Spec2Model ----
(***************************************************************************)
(* Model of the image compression pipeline of vrnd369/compressing.         *)
(*                                                                         *)
(*   SpecCompress : compressImage (canvas version) on one image: image     *)
(*                  load, target-size calculation, resolve / reject.       *)
(*   Spec         : processBatchImages over a list of images followed by   *)
(*                  createZipFromImages on the report it returned.         *)
(*   SpecName     : the file-name derivation of processBatchImages on one  *)
(*                  name, index and format.                                *)
(*   SpecEncode   : the encoder invocation of both compressImage versions  *)
(*                  for two transforms of one image that differ in         *)
(*                  quality only.                                          *)
(*   SpecSettings : the CompressionSettings component under user events,   *)
(*                  with the zero-delay timeouts that deliver its options  *)
(*                  to App.                                                *)
(*   SpecApp      : App under file selections, removals and batch runs,    *)
(*                  with the file reads and the batch in flight; the       *)
(*                  batch is fair, so it settles.                          *)
(*                                                                         *)
(* Pixel arithmetic is exact: Math.round(a / b) on non-negative operands   *)
(* is floor(a/b + 1/2), computed on integers.  File names are sequences    *)
(* of one-character strings so that the extension regex can be modelled.   *)
(***************************************************************************)
EXTENDS Integers, Sequences, FiniteSets, TLC

VARIABLES
    \* ---- compressImage (one call) ----
    image,              \* the decoded source: [width, height, loads]
    options,            \* the options object handed to compressImage
    cpc,                \* "created" | "loading" | "resolved" | "rejected"
    cResult,            \* the value the promise settled with
    \* ---- processBatchImages / createZipFromImages ----
    images,             \* input list: sequence of [name, decodes]
    compressionOptions, \* [format]
    onProgress,         \* [present, throwsAt, message]: the progress callback
    i,                  \* loop index of processBatchImages (0-based)
    results,            \* the results array
    progressEvents,     \* every onProgress call: [current, total, recorded]
    bpc,                \* "loop" | "try" | "await" | "returned" | "threw"
    compressCalls,      \* the items compressImage was called for, in order
    archive,            \* JSZip content: entry name -> payload
    zipOutcome,         \* "pending" | "blob" | "EmptyArchive"
    \* ---- App.handleDownloadZip ----
    delivery,           \* what one click on the download button did
    \* ---- file-name derivation (one item) ----
    nameCase,           \* [name, idx, format]: image.name, i, options.format
    fileName,           \* the compressedFileName derived from it
    \* ---- encoder invocation (two transforms of one image) ----
    encodeCase,         \* [version, format, maxWidth, maxHeight, quality]
    encoderCalls,       \* transform 1, 2 -> the call made to the encoder
    \* ---- CompressionSettings inside App ----
    customOptions,      \* useState customOptions of CompressionSettings
    activePreset,       \* useState activePreset of CompressionSettings
    timeouts,           \* pending setTimeout(() => onOptionsChange(o), 0), FIFO
    appOptions,         \* useState compressionOptions of App
    lastChange,         \* the last user event and customOptions before it
    changes,            \* number of user events so far
    \* ---- App: selection and batch ----
    selectedImages,     \* useState selectedImages: sequence of images
    selectedImage,      \* useState selectedImage: data URL of the preview
    isProcessing,       \* useState isProcessing
    processingProgress, \* useState processingProgress: [current, total]
    compressedResults,  \* useState compressedResults
    reads,              \* selections being read: [files, loaded], oldest first
    inFlight,           \* handleBatchCompress calls awaiting: [images, done]
    lastAlert,          \* text of the last alert()
    appEvents           \* the user events so far: [kind, files, index]

compressVars == <<image, options, cpc, cResult>>
batchVars == <<images, compressionOptions, onProgress, i, results,
               progressEvents, bpc, compressCalls, archive, zipOutcome, delivery>>
nameVars == <<nameCase, fileName>>
encodeVars == <<encodeCase, encoderCalls>>
settingsVars == <<customOptions, activePreset, timeouts, appOptions,
                  lastChange, changes>>
appVars == <<selectedImages, selectedImage, isProcessing, processingProgress,
             compressedResults, reads, inFlight, lastAlert, appEvents>>
vars == <<compressVars, batchVars, nameVars, encodeVars, settingsVars, appVars>>

\* What the actions of one specification leave alone.
exceptCompress == <<batchVars, nameVars, encodeVars, settingsVars, appVars>>
exceptBatch == <<compressVars, nameVars, encodeVars, settingsVars, appVars>>
exceptName == <<compressVars, batchVars, encodeVars, settingsVars, appVars>>
exceptEncode == <<compressVars, batchVars, nameVars, settingsVars, appVars>>
exceptSettings == <<compressVars, batchVars, nameVars, encodeVars, appVars>>
exceptApp == <<compressVars, batchVars, nameVars, encodeVars, settingsVars>>

(***************************************************************************)
(* Bounds of the model and constants of the program.                       *)
(***************************************************************************)
MaxDim == 4
MaxImages == 3
MaxNameLen == 4
MaxChanges == 3
MaxFiles == 2
MaxAppEvents == 3
NoResizeLimit == 9999

\* Sizes beyond the small range: the sizes the specification's scenarios use
\* and the sizes around the no-resize limit.
SpecialDims == {1000, 2000, 9999, 10000}
SpecialMax == {800, 9998, 9999, 10000}
Dims == (1..MaxDim) \cup SpecialDims
MaxDims == (0..MaxDim) \cup SpecialMax

Min(a, b) == IF a < b THEN a ELSE b

\* Variant of Round: Math.floor.
RoundDown(num, den) == num \div den

\* Math.round(num / den) for num >= 0, den > 0: ties go up.
Round(num, den) == (2 * num + den) \div (2 * den)

(***************************************************************************)
(* compressImage: the target size.                                         *)
(***************************************************************************)
\* if (maxWidth > 0 && maxHeight > 0 && maxWidth < 9999 && maxHeight < 9999)
resizeEnabled(maxWidth, maxHeight) ==
    maxWidth > 0 /\ maxHeight > 0
        /\ maxWidth < NoResizeLimit /\ maxHeight < NoResizeLimit

\* Variant of clampLandscape with the aspect ratio inverted (height / width).
clampLandscapeInvertedRatio(originalWidth, originalHeight, maxWidth, maxHeight) ==
    LET newWidth == Min(originalWidth, maxWidth)
        newHeight == Round(newWidth * originalWidth, originalHeight)
    IN  IF newHeight > maxHeight
        THEN [width |-> Round(maxHeight * originalHeight, originalWidth),
              height |-> maxHeight]
        ELSE [width |-> newWidth, height |-> newHeight]

\* originalWidth > originalHeight: clamp the width, derive the height, and
\* re-clamp on the height when the derived height overshoots.
\* newWidth / aspectRatio = newWidth * originalHeight / originalWidth.
clampLandscape(originalWidth, originalHeight, maxWidth, maxHeight) ==
    LET newWidth == Min(originalWidth, maxWidth)
        newHeight == Round(newWidth * originalHeight, originalWidth)
    IN  IF newHeight > maxHeight
        THEN [width |-> Round(maxHeight * originalWidth, originalHeight),
              height |-> maxHeight]
        ELSE [width |-> newWidth, height |-> newHeight]

\* originalWidth <= originalHeight: the symmetric rule.
clampPortrait(originalWidth, originalHeight, maxWidth, maxHeight) ==
    LET newHeight == Min(originalHeight, maxHeight)
        newWidth == Round(newHeight * originalWidth, originalHeight)
    IN  IF newWidth > maxWidth
        THEN [width |-> maxWidth,
              height |-> Round(maxWidth * originalHeight, originalWidth)]
        ELSE [width |-> newWidth, height |-> newHeight]

\* The whole calculation.  opts.preserveDimensions is never read: the
\* destructuring at the top of compressImage takes maxWidth, maxHeight,
\* quality, format and maintainAspectRatio only.
targetSize(originalWidth, originalHeight, opts) ==
    IF resizeEnabled(opts.maxWidth, opts.maxHeight)
    THEN IF opts.maintainAspectRatio
         THEN IF originalWidth > opts.maxWidth \/ originalHeight > opts.maxHeight
              THEN IF originalWidth > originalHeight
                   THEN clampLandscape(originalWidth, originalHeight,
                                       opts.maxWidth, opts.maxHeight)
                   ELSE clampPortrait(originalWidth, originalHeight,
                                      opts.maxWidth, opts.maxHeight)
              ELSE [width |-> originalWidth, height |-> originalHeight]
         ELSE [width |-> Min(originalWidth, opts.maxWidth),
               height |-> Min(originalHeight, opts.maxHeight)]
    ELSE [width |-> originalWidth, height |-> originalHeight]

NoResult == [settled |-> "none"]

\* compressImage(imageDataUrl, options): new Image(), handlers installed,
\* img.src assigned; the promise is pending until the image loads or fails.
CompressImageStart ==
    /\ cpc = "created"
    /\ cpc' = "loading"
    /\ UNCHANGED <<image, options, cResult>>

\* img.onload: sizes computed, canvas drawn and encoded, promise resolved.
ImgOnload ==
    /\ cpc = "loading"
    /\ image.loads
    /\ LET t == targetSize(image.width, image.height, options)
       IN  cResult' = [settled |-> "resolved",
                       width |-> t.width, height |-> t.height,
                       originalWidth |-> image.width,
                       originalHeight |-> image.height]
    /\ cpc' = "resolved"
    /\ UNCHANGED <<image, options>>

\* img.onerror: reject(new Error('Failed to load image')).
ImgOnerror ==
    /\ cpc = "loading"
    /\ ~image.loads
    /\ cResult' = [settled |-> "rejected", message |-> "Failed to load image"]
    /\ cpc' = "rejected"
    /\ UNCHANGED <<image, options>>

\* No progress callback was passed.
NoProgress == [present |-> FALSE, throwsAt |-> 0, message |-> "<none>"]

\* The download button has not been clicked.
NoDelivery == [clicked |-> FALSE]

BatchIdle ==
    /\ images = <<>>
    /\ compressionOptions = [format |-> "image/jpeg"]
    /\ onProgress = NoProgress
    /\ i = 0
    /\ results = <<>>
    /\ progressEvents = <<>>
    /\ bpc = "loop"
    /\ compressCalls = <<>>
    /\ archive = <<>>
    /\ zipOutcome = "pending"
    /\ delivery = NoDelivery

\* No file name is being derived.
NameIdle ==
    /\ nameCase = [name |-> <<>>, idx |-> 0, format |-> "image/jpeg"]
    /\ fileName = << "<null>" >>

\* The encoder has not been called.
NoCall == [fn |-> "<none>"]

EncodeIdle ==
    /\ encodeCase = [version |-> "canvas", format |-> "image/jpeg",
                     maxWidth |-> 800, maxHeight |-> 800,
                     quality |-> <<70, 70>>]
    /\ encoderCalls = <<NoCall, NoCall>>

\* COMPRESSION_PRESETS, quality in percent.
COMPRESSION_PRESETS ==
    [low    |-> [maxWidth |-> 400, maxHeight |-> 400, quality |-> 60,
                 format |-> "image/jpeg", maintainAspectRatio |-> TRUE],
     medium |-> [maxWidth |-> 800, maxHeight |-> 800, quality |-> 70,
                 format |-> "image/jpeg", maintainAspectRatio |-> TRUE],
     high   |-> [maxWidth |-> 1200, maxHeight |-> 1200, quality |-> 85,
                 format |-> "image/jpeg", maintainAspectRatio |-> TRUE],
     webp   |-> [maxWidth |-> 1000, maxHeight |-> 1000, quality |-> 80,
                 format |-> "image/webp", maintainAspectRatio |-> TRUE],
     png    |-> [maxWidth |-> 1200, maxHeight |-> 1200, quality |-> 90,
                 format |-> "image/png", maintainAspectRatio |-> TRUE]]

\* { ...preset, preserveDimensions: value }
withPreserveDimensions(preset, value) ==
    [maxWidth |-> preset.maxWidth, maxHeight |-> preset.maxHeight,
     quality |-> preset.quality, format |-> preset.format,
     maintainAspectRatio |-> preset.maintainAspectRatio,
     preserveDimensions |-> value]

\* App and CompressionSettings after mounting: App starts from the medium
\* preset, whose missing preserveDimensions reads as false; no event yet.
SettingsMounted ==
    /\ customOptions = withPreserveDimensions(COMPRESSION_PRESETS.medium, FALSE)
    /\ activePreset = "medium"
    /\ timeouts = <<>>
    /\ appOptions = withPreserveDimensions(COMPRESSION_PRESETS.medium, FALSE)
    /\ lastChange = [kind |-> "none",
                     before |-> withPreserveDimensions(COMPRESSION_PRESETS.medium, FALSE)]
    /\ changes = 0

\* App after mounting: nothing selected, nothing processed (App.jsx 10-15).
AppMounted ==
    /\ selectedImages = <<>>
    /\ selectedImage = <<>>
    /\ isProcessing = FALSE
    /\ processingProgress = [current |-> 0, total |-> 0]
    /\ compressedResults = <<>>
    /\ reads = <<>>
    /\ inFlight = <<>>
    /\ lastAlert = "<none>"
    /\ appEvents = <<>>

InitCompress ==
    /\ image \in [width : Dims, height : Dims, loads : BOOLEAN]
    /\ options \in [maxWidth : MaxDims, maxHeight : MaxDims,
                    maintainAspectRatio : BOOLEAN,
                    preserveDimensions : BOOLEAN]
    /\ cpc = "created"
    /\ cResult = NoResult
    /\ BatchIdle
    /\ NameIdle
    /\ EncodeIdle
    /\ SettingsMounted
    /\ AppMounted

NextCompress ==
    \/ CompressImageStart /\ UNCHANGED exceptCompress
    \/ ImgOnload /\ UNCHANGED exceptCompress
    \/ ImgOnerror /\ UNCHANGED exceptCompress

SpecCompress == InitCompress /\ [][NextCompress]_vars

(***************************************************************************)
(* processBatchImages.                                                     *)
(***************************************************************************)
Formats == {"image/jpeg", "image/png", "image/webp"}

\* The formats a caller may pass: the three of the format selector and one
\* that is none of them.
ConfigFormats == Formats \cup {"image/gif"}

\* File names of the inputs: a.png, a.jpg, b (no extension) and the empty
\* name (falsy, replaced by image_<n>).
ImageNames == { <<"a", ".", "p", "n", "g">>, <<"a", ".", "j", "p", "g">>,
                <<"b">>, <<>> }

NullName == << "<null>" >>      \* fileName: null
NullUrl == <<>>                 \* dataUrl: null
NullStats == [null |-> TRUE]    \* stats: null
NullError == "<null>"           \* error: null

SeqUpTo(S, m) == UNION { [1..k -> S] : k \in 0..m }

DigitChars == <<"0", "1", "2", "3", "4", "5", "6", "7", "8", "9">>

\* Number to decimal string, as the template literal `image_${i + 1}` does.
RECURSIVE decimalString(_)
decimalString(k) ==
    IF k < 10 THEN << DigitChars[k + 1] >>
    ELSE decimalString(k \div 10) \o << DigitChars[(k % 10) + 1] >>

\* Position of the last '.' of s, 0 when there is none.
RECURSIVE LastDot(_, _)
LastDot(s, p) ==
    IF p = 0 THEN 0 ELSE IF s[p] = "." THEN p ELSE LastDot(s, p - 1)

\* Variant of nameWithoutExt: the name is cut at its first '.'.
nameWithoutExtFirstDot(originalName) ==
    IF \E k \in 1..Len(originalName) : originalName[k] = "."
    THEN LET p == CHOOSE k \in 1..Len(originalName) :
                      /\ originalName[k] = "."
                      /\ \A j \in 1..(k - 1) : originalName[j] # "."
         IN  SubSeq(originalName, 1, p - 1)
    ELSE originalName

\* originalName.replace(/\.[^/.]+$/, ''): the match must start at a '.' and
\* run to the end over one or more characters that are neither '/' nor '.',
\* so it can only start at the last '.'.
nameWithoutExt(originalName) ==
    LET p == LastDot(originalName, Len(originalName))
    IN  IF p > 0 /\ p < Len(originalName)
            /\ \A k \in (p + 1)..Len(originalName) : originalName[k] # "/"
        THEN SubSeq(originalName, 1, p - 1)
        ELSE originalName

\* format === 'image/png' ? 'png' : format === 'image/webp' ? 'webp' : 'jpg'
extension(format) ==
    IF format = "image/png" THEN <<"p", "n", "g">>
    ELSE IF format = "image/webp" THEN <<"w", "e", "b", "p">>
    ELSE <<"j", "p", "g">>

\* image.name || `image_${i + 1}`, extension stripped, new extension added.
compressedFileName(img, idx, format) ==
    LET originalName == IF img.name # <<>> THEN img.name
                        ELSE <<"i", "m", "a", "g", "e", "_">> \o decimalString(idx + 1)
    IN  nameWithoutExt(originalName) \o <<".">> \o extension(format)

\* compressImage(image.file || image.dataUrl, compressionOptions) as the
\* batch sees it: it resolves with the encoded image or throws
\* `Compression error: ${error.message}`; loadImage rejects with the error
\* event of the <img>, which has no message.  The encoded output of input
\* number idx is the data URL <<mime type, idx>>.
compressImage(img, idx, opts) ==
    IF img.decodes
    THEN [ok |-> TRUE, base64 |-> <<opts.format, idx>>, format |-> opts.format]
    ELSE [ok |-> FALSE, message |-> "Compression error: undefined"]

successResult(img, idx, result) ==
    [originalName |-> img.name,
     fileName |-> compressedFileName(img, idx, compressionOptions.format),
     dataUrl |-> result.base64,
     stats |-> [null |-> FALSE, base64 |-> result.base64, format |-> result.format],
     success |-> TRUE,
     error |-> NullError]

\* Variant of failureResult: the name of the source is kept as fileName.
failureResultKeepsName(img, message) ==
    [originalName |-> img.name,
     fileName |-> img.name,
     dataUrl |-> NullUrl,
     stats |-> NullStats,
     success |-> FALSE,
     error |-> message]

failureResult(img, message) ==
    [originalName |-> img.name,
     fileName |-> NullName,
     dataUrl |-> NullUrl,
     stats |-> NullStats,
     success |-> FALSE,
     error |-> message]

\* Variant of catchError: no catch block, the error leaves the function.
rethrowError(message) ==
    /\ bpc' = "threw"
    /\ UNCHANGED <<results, i>>

\* The catch block of the loop body: the failure is recorded and the loop
\* goes on with the next item.
catchError(message) ==
    /\ results' = Append(results, failureResult(images[i + 1], message))
    /\ i' = i + 1
    /\ bpc' = "loop"

\* Variant of progressArgs: the 0-based index is reported.
progressAtIndex(idx, total) == [current |-> idx, total |-> total]

\* The arguments of the progress call of iteration idx.
progressArgs(idx, total) == [current |-> idx + 1, total |-> total]

progressEvent ==
    LET a == progressArgs(i, Len(images))
    IN  [current |-> a.current, total |-> a.total, recorded |-> Len(results)]

\* for (let i = 0; i < images.length; i++) ... return results
BatchLoop ==
    /\ bpc = "loop"
    /\ bpc' = IF i < Len(images) THEN "try" ELSE "returned"
    /\ UNCHANGED <<images, compressionOptions, onProgress, i, results,
                   progressEvents, compressCalls, archive, zipOutcome, delivery>>

\* if (onProgress) is false: straight to the compressImage call.
BatchProgressAbsent ==
    /\ bpc = "try"
    /\ ~onProgress.present
    /\ bpc' = "await"
    /\ compressCalls' = Append(compressCalls, i + 1)
    /\ UNCHANGED <<images, compressionOptions, onProgress, i, results,
                   progressEvents, archive, zipOutcome, delivery>>

\* onProgress(i + 1, images.length) returns; compressImage is called and
\* awaited.
BatchProgressReturns ==
    /\ bpc = "try"
    /\ onProgress.present
    /\ onProgress.throwsAt # i + 1
    /\ progressEvents' = Append(progressEvents, progressEvent)
    /\ bpc' = "await"
    /\ compressCalls' = Append(compressCalls, i + 1)
    /\ UNCHANGED <<images, compressionOptions, onProgress, i, results,
                   archive, zipOutcome, delivery>>

\* Variant of BatchProgressThrows: the call is made outside the try block.
BatchProgressEscapes ==
    /\ bpc = "try"
    /\ onProgress.present
    /\ onProgress.throwsAt = i + 1
    /\ progressEvents' = Append(progressEvents, progressEvent)
    /\ bpc' = "threw"
    /\ UNCHANGED <<images, compressionOptions, onProgress, i, results,
                   compressCalls, archive, zipOutcome, delivery>>

\* onProgress(i + 1, images.length) throws an Error inside the try block:
\* the catch block records error.message for the item; compressImage is
\* not reached.
BatchProgressThrows ==
    /\ bpc = "try"
    /\ onProgress.present
    /\ onProgress.throwsAt = i + 1
    /\ progressEvents' = Append(progressEvents, progressEvent)
    /\ catchError(onProgress.message)
    /\ UNCHANGED <<images, compressionOptions, onProgress, compressCalls,
                   archive, zipOutcome, delivery>>

\* The awaited compressImage resolves: the success entry is pushed.
CompressResolves ==
    /\ bpc = "await"
    /\ LET r == compressImage(images[i + 1], i + 1, compressionOptions)
       IN  /\ r.ok
           /\ results' = Append(results, successResult(images[i + 1], i, r))
    /\ i' = i + 1
    /\ bpc' = "loop"
    /\ UNCHANGED <<images, compressionOptions, onProgress, progressEvents,
                   compressCalls, archive, zipOutcome, delivery>>

\* The awaited compressImage rejects: the catch block runs.
CompressRejects ==
    /\ bpc = "await"
    /\ LET r == compressImage(images[i + 1], i + 1, compressionOptions)
       IN  /\ ~r.ok
           /\ catchError(r.message)
    /\ UNCHANGED <<images, compressionOptions, onProgress, progressEvents,
                   compressCalls, archive, zipOutcome, delivery>>

(***************************************************************************)
(* createZipFromImages.                                                    *)
(***************************************************************************)
\* if (result.success && result.dataUrl)
zipIncluded(result) == result.success /\ result.dataUrl # NullUrl

\* Variant of zipEntryName: the entry is stored under the source name.
zipEntryNameOriginal(result) == result.originalName

\* The name handed to zip.file.
zipEntryName(result) == result.fileName

\* zip.file(name, bytes): JSZip keeps one entry per name, the last written.
zipFile(zip, name, bytes) == (name :> bytes) @@ zip

\* The for-of loop over compressedResults.  The bytes of an entry are the
\* base64 part of the data URL, decoded; they stand for the input they were
\* encoded from.
RECURSIVE zipAll(_, _)
zipAll(rs, zip) ==
    IF rs = <<>> THEN zip
    ELSE LET result == Head(rs)
         IN  zipAll(Tail(rs),
                    IF zipIncluded(result)
                    THEN zipFile(zip, zipEntryName(result), result.dataUrl[2])
                    ELSE zip)

\* createZipFromImages(results): the archive is filled and generateAsync
\* resolves with the blob, whatever the number of entries.
CreateZipFromImages ==
    /\ bpc = "returned"
    /\ zipOutcome = "pending"
    /\ archive' = zipAll(results, <<>>)
    /\ zipOutcome' = "blob"
    /\ UNCHANGED <<images, compressionOptions, onProgress, i, results,
                   progressEvents, bpc, compressCalls, delivery>>

(***************************************************************************)
(* App.handleDownloadZip, on the report the batch returned                 *)
(* (setCompressedResults(results)).                                        *)
(***************************************************************************)
\* compressedResults.filter(r => r.success)
successfulResults(report) ==
    SelectSeq(report, LAMBDA r : r.success)

\* Variant of deliversSingleFile: the test is length >= 1.
deliversAnyAsSingleFile(successful) == Len(successful) >= 1

\* if (successfulResults.length === 1)
deliversSingleFile(successful) == Len(successful) = 1

\* `compressed_images_${Date.now()}.zip`
ZipDownloadName == << "compressed_images_<Date.now()>.zip" >>

\* One click: nothing but an alert without successes; the single output
\* fetched from its data URL and downloaded under its fileName; or the
\* archive of createZipFromImages(compressedResults) downloaded.
HandleDownloadZip ==
    /\ bpc = "returned"
    /\ zipOutcome = "pending"
    /\ ~delivery.clicked
    /\ LET successful == successfulResults(results)
       IN  IF Len(successful) = 0
           THEN /\ delivery' = [clicked |-> TRUE, alerted |-> TRUE, zipCalls |-> 0,
                                zipArgument |-> <<>>, downloads |-> <<>>]
                /\ UNCHANGED <<archive, zipOutcome>>
           ELSE IF deliversSingleFile(successful)
           THEN /\ delivery' =
                     [clicked |-> TRUE, alerted |-> FALSE, zipCalls |-> 0,
                      zipArgument |-> <<>>,
                      downloads |-> << [fileName |-> successful[1].fileName,
                                        kind |-> "image",
                                        image |-> successful[1].dataUrl[2],
                                        entries |-> <<>>] >>]
                /\ UNCHANGED <<archive, zipOutcome>>
           ELSE /\ archive' = zipAll(results, <<>>)
                /\ zipOutcome' = "blob"
                /\ delivery' =
                     [clicked |-> TRUE, alerted |-> FALSE, zipCalls |-> 1,
                      zipArgument |-> results,
                      downloads |-> << [fileName |-> ZipDownloadName,
                                        kind |-> "zip",
                                        image |-> 0,
                                        entries |-> zipAll(results, <<>>)] >>]
    /\ UNCHANGED <<images, compressionOptions, onProgress, i, results,
                   progressEvents, bpc, compressCalls>>

CompressIdle ==
    /\ image = [width |-> 1, height |-> 1, loads |-> TRUE]
    /\ options = [maxWidth |-> 800, maxHeight |-> 800,
                  maintainAspectRatio |-> TRUE, preserveDimensions |-> FALSE]
    /\ cpc = "created"
    /\ cResult = NoResult

Init ==
    /\ images \in SeqUpTo([name : ImageNames, decodes : BOOLEAN], MaxImages)
    /\ compressionOptions \in [format : ConfigFormats]
    /\ onProgress \in {NoProgress}
            \cup {[present |-> TRUE, throwsAt |-> k,
                   message |-> "progress callback failed"] : k \in 0..Len(images)}
    /\ i = 0
    /\ results = <<>>
    /\ progressEvents = <<>>
    /\ bpc = "loop"
    /\ compressCalls = <<>>
    /\ archive = <<>>
    /\ zipOutcome = "pending"
    /\ delivery = NoDelivery
    /\ CompressIdle
    /\ NameIdle
    /\ EncodeIdle
    /\ SettingsMounted
    /\ AppMounted

Next ==
    \/ BatchLoop /\ UNCHANGED exceptBatch
    \/ BatchProgressAbsent /\ UNCHANGED exceptBatch
    \/ BatchProgressReturns /\ UNCHANGED exceptBatch
    \/ BatchProgressThrows /\ UNCHANGED exceptBatch
    \/ CompressResolves /\ UNCHANGED exceptBatch
    \/ CompressRejects /\ UNCHANGED exceptBatch
    \/ CreateZipFromImages /\ UNCHANGED exceptBatch
    \/ HandleDownloadZip /\ UNCHANGED exceptBatch

Spec == Init /\ [][Next]_vars

(***************************************************************************)
(* The file-name derivation on its own: one name, one index, one format.   *)
(***************************************************************************)
\* Characters of the modelled names: a letter, the dot and the slash (the
\* two characters the extension regex excludes).
NameChars == {"a", ".", "/"}

\* Loop indexes, chosen so that image_<i + 1> has one and two digits.
NameIndexes == {0, 8, 9}

InitName ==
    /\ nameCase \in [name : SeqUpTo(NameChars, MaxNameLen),
                      idx : NameIndexes, format : ConfigFormats]
    /\ fileName = NullName
    /\ CompressIdle
    /\ BatchIdle
    /\ EncodeIdle
    /\ SettingsMounted
    /\ AppMounted

\* Lines 24-32 of processBatchImages for one item.
DeriveFileName ==
    /\ fileName = NullName
    /\ fileName' = compressedFileName([name |-> nameCase.name],
                                      nameCase.idx, nameCase.format)
    /\ UNCHANGED nameCase

NextName ==
    \/ DeriveFileName /\ UNCHANGED exceptName

SpecName == InitName /\ [][NextName]_vars

(***************************************************************************)
(* The encoder invocation of compressImage: canvas.toDataURL in the canvas *)
(* version, imageCompression(file, compressionConfig) in the library       *)
(* version.  Two transforms of the same image run with options that differ *)
(* in quality only; quality is in percent.                                 *)
(***************************************************************************)
Qualities == {60, 90, 100}
BoxSides == {800, 1200}

Max(a, b) == IF a > b THEN a ELSE b

\* format === 'image/png' ? canvas.toDataURL(format)
\*                        : canvas.toDataURL(format, quality)
toDataURLCall(format, quality) ==
    IF format = "image/png"
    THEN [fn |-> "canvas.toDataURL", args |-> <<format>>]
    ELSE [fn |-> "canvas.toDataURL", args |-> <<format, quality>>]

\* const compressionConfig = {...}; initialQuality is <<q>> when the key is
\* set and <<>> when it is not.
compressionConfig(maxWidth, maxHeight, quality, format) ==
    [maxSizeMB |-> 100,
     maxWidthOrHeight |-> Max(maxWidth, maxHeight),
     useWebWorker |-> TRUE,
     fileType |-> format,
     initialQuality |-> <<quality>>,
     alwaysKeepResolution |-> FALSE]

imageCompressionCall(opts, quality) ==
    [fn |-> "imageCompression",
     config |-> compressionConfig(opts.maxWidth, opts.maxHeight,
                                  quality, opts.format)]

InitEncode ==
    /\ encodeCase \in [version : {"canvas", "library"}, format : Formats,
                        maxWidth : BoxSides, maxHeight : BoxSides,
                        quality : Qualities \X Qualities]
    /\ encoderCalls = <<NoCall, NoCall>>
    /\ CompressIdle
    /\ BatchIdle
    /\ NameIdle
    /\ SettingsMounted
    /\ AppMounted

\* Transform t of the canvas version reaches canvas.toDataURL.
CanvasEncode ==
    \E t \in 1..2 :
        /\ encodeCase.version = "canvas"
        /\ encoderCalls[t] = NoCall
        /\ encoderCalls' = [encoderCalls EXCEPT ![t] =
                toDataURLCall(encodeCase.format, encodeCase.quality[t])]
        /\ UNCHANGED encodeCase

\* Transform t of the library version reaches imageCompression.
LibraryCompress ==
    \E t \in 1..2 :
        /\ encodeCase.version = "library"
        /\ encoderCalls[t] = NoCall
        /\ encoderCalls' = [encoderCalls EXCEPT ![t] =
                imageCompressionCall(encodeCase, encodeCase.quality[t])]
        /\ UNCHANGED encodeCase

NextEncode ==
    \/ CanvasEncode /\ UNCHANGED exceptEncode
    \/ LibraryCompress /\ UNCHANGED exceptEncode

SpecEncode == InitEncode /\ [][NextEncode]_vars

(***************************************************************************)
(* CompressionSettings.  One action is one event handler run to completion *)
(* on the customOptions of the current render; every handler defers        *)
(* onOptionsChange with setTimeout(..., 0), and the timeouts fire in the   *)
(* order they were set.                                                    *)
(***************************************************************************)
\* The values the number inputs, the slider, the select and the checkbox of
\* the custom settings can send: <<key, value>>.
CustomInputs(co) ==
    {<<"maxWidth", 100>>, <<"maxHeight", 100>>,
     <<"maintainAspectRatio", ~co.maintainAspectRatio>>}
    \cup {<<"format", f>> : f \in Formats}
    \cup (IF co.format = "image/png" THEN {} ELSE {<<"quality", 50>>})

\* const newOptions = { ...customOptions, [key]: value }
newOptions(closure, key, value) == [closure EXCEPT ![key] = value]

InitSettings ==
    /\ SettingsMounted
    /\ AppMounted
    /\ CompressIdle
    /\ BatchIdle
    /\ NameIdle
    /\ EncodeIdle

\* handlePresetChange(presetName)
HandlePresetChange ==
    \E presetName \in DOMAIN COMPRESSION_PRESETS :
        LET preset == withPreserveDimensions(COMPRESSION_PRESETS[presetName], FALSE)
        IN  /\ changes < MaxChanges
            /\ activePreset' = presetName
            /\ customOptions' = preset
            /\ timeouts' = Append(timeouts, preset)
            /\ lastChange' = [kind |-> "preset", before |-> customOptions]
            /\ changes' = changes + 1
            /\ UNCHANGED appOptions

\* The Custom button: setActivePreset('custom').
CustomPresetClick ==
    /\ changes < MaxChanges
    /\ activePreset' = "custom"
    /\ lastChange' = [kind |-> "customPreset", before |-> customOptions]
    /\ changes' = changes + 1
    /\ UNCHANGED <<customOptions, timeouts, appOptions>>

\* handleCustomOptionChange(key, value) from one input of the custom
\* settings; the size inputs are rendered only without preserveDimensions.
HandleCustomOptionChange ==
    \E input \in CustomInputs(customOptions) :
        LET n == newOptions(customOptions, input[1], input[2])
        IN  /\ changes < MaxChanges
            /\ input[1] \in {"maxWidth", "maxHeight"}
                    => ~customOptions.preserveDimensions
            /\ customOptions' = n
            /\ activePreset' = "custom"
            /\ timeouts' = Append(timeouts, n)
            /\ lastChange' = [kind |-> "custom", before |-> customOptions]
            /\ changes' = changes + 1
            /\ UNCHANGED appOptions

\* onChange of the 'Preserve Original Dimensions' checkbox: three calls of
\* handleCustomOptionChange in one handler, all three on the customOptions
\* of the render the handler was created in; the last setCustomOptions is
\* the state of the next render.
PreserveCheckboxChange ==
    LET preserve == ~customOptions.preserveDimensions
        side == IF preserve THEN 9999 ELSE 800
        n1 == newOptions(customOptions, "preserveDimensions", preserve)
        n2 == newOptions(customOptions, "maxWidth", side)
        n3 == newOptions(customOptions, "maxHeight", side)
    IN  /\ changes < MaxChanges
        /\ customOptions' = n3
        /\ activePreset' = "custom"
        /\ timeouts' = timeouts \o <<n1, n2, n3>>
        /\ lastChange' = [kind |-> IF preserve THEN "preserveTicked"
                                   ELSE "preserveUnticked",
                          before |-> customOptions]
        /\ changes' = changes + 1
        /\ UNCHANGED appOptions

\* The oldest timeout fires: onOptionsChange(o) is App.handleOptionsChange,
\* setCompressionOptions(o).
OptionsTimeout ==
    /\ timeouts # <<>>
    /\ appOptions' = Head(timeouts)
    /\ timeouts' = Tail(timeouts)
    /\ UNCHANGED <<customOptions, activePreset, lastChange, changes>>

NextSettings ==
    \/ HandlePresetChange /\ UNCHANGED exceptSettings
    \/ CustomPresetClick /\ UNCHANGED exceptSettings
    \/ HandleCustomOptionChange /\ UNCHANGED exceptSettings
    \/ PreserveCheckboxChange /\ UNCHANGED exceptSettings
    \/ OptionsTimeout /\ UNCHANGED exceptSettings

SpecSettings == InitSettings /\ [][NextSettings]_vars

(***************************************************************************)
(* App: file selection, removal and the batch run.  A user event is one    *)
(* handler run to completion; the FileReader loads of a selection and the  *)
(* steps of a batch in flight interleave with later user events.  The      *)
(* then-callback of Promise.all is a microtask of the last load, so it is  *)
(* part of that load's action.                                             *)
(***************************************************************************)
\* The files a user can pick: an image, an image whose bytes do not decode
\* and a file that is not an image.
AppFiles ==
    { [name |-> <<"a", ".", "p", "n", "g">>, type |-> "image/png",
       size |-> 2, decodes |-> TRUE],
      [name |-> <<"b", ".", "p", "n", "g">>, type |-> "image/png",
       size |-> 1, decodes |-> FALSE],
      [name |-> <<"t", ".", "t", "x", "t">>, type |-> "text/plain",
       size |-> 1, decodes |-> FALSE] }

\* event.target.files: one or more distinct files, in selection order.
Selections ==
    { f \in SeqUpTo(AppFiles, MaxFiles) :
        /\ Len(f) > 0
        /\ \A a, b \in 1..Len(f) : a # b => f[a] # f[b] }

\* file.type.startsWith('image/')
isImageFile(file) == file.type \in {"image/png", "image/jpeg", "image/webp"}

\* reader.readAsDataURL(file): the data URL of the file's content.
readAsDataURL(file) == <<"data:">> \o file.name

\* What reader.onload resolves the file's promise with.
readImage(file) ==
    [name |-> file.name, dataUrl |-> readAsDataURL(file), size |-> file.size,
     decodes |-> file.decodes]

\* s without its element number p (1-based).
RemoveAt(s, p) == SubSeq(s, 1, p - 1) \o SubSeq(s, p + 1, Len(s))

\* The report processBatchImages resolves with for the images it was given,
\* under the options App holds (the medium preset, JPEG).
batchReport(imgs) ==
    [k \in 1..Len(imgs) |->
        LET r == compressImage(imgs[k], k - 1, [format |-> "image/jpeg"])
        IN  IF r.ok THEN successResult(imgs[k], k - 1, r)
            ELSE failureResult(imgs[k], r.message)]

\* Variant of compressDisabled: the button ignores isProcessing.
compressDisabledWhenEmpty == Len(selectedImages) = 0

\* disabled={isProcessing || selectedImages.length === 0}
compressDisabled == isProcessing \/ Len(selectedImages) = 0

InitApp ==
    /\ AppMounted
    /\ SettingsMounted
    /\ CompressIdle
    /\ BatchIdle
    /\ NameIdle
    /\ EncodeIdle

\* handleImageSelect(event): the reads are started, nothing is set yet.
HandleImageSelect ==
    \E files \in Selections :
        LET imageFiles == SelectSeq(files, isImageFile)
        IN  /\ Len(appEvents) < MaxAppEvents
            /\ appEvents' = Append(appEvents,
                    [kind |-> "select", files |-> files, index |-> 0])
            /\ IF imageFiles = <<>>
               THEN /\ lastAlert' = "Please select valid image files"
                    /\ UNCHANGED reads
               ELSE /\ reads' = Append(reads,
                            [files |-> imageFiles, loaded |-> {}])
                    /\ UNCHANGED lastAlert
            /\ UNCHANGED <<selectedImages, selectedImage, isProcessing,
                           processingProgress, compressedResults, inFlight>>

\* reader.onload for file k of the pending selection p; after the last load
\* of the selection Promise.all resolves with the images in file order and
\* its then-callback sets selectedImages and the preview.
ReaderOnload ==
    \E p \in 1..Len(reads) :
        \E k \in (1..Len(reads[p].files)) \ reads[p].loaded :
            LET loaded == reads[p].loaded \cup {k}
                imgs == [j \in 1..Len(reads[p].files) |->
                            readImage(reads[p].files[j])]
            IN  /\ IF loaded = 1..Len(reads[p].files)
                   THEN /\ reads' = RemoveAt(reads, p)
                        /\ selectedImages' = imgs
                        /\ selectedImage' = imgs[1].dataUrl
                   ELSE /\ reads' = [reads EXCEPT ![p].loaded = loaded]
                        /\ UNCHANGED <<selectedImages, selectedImage>>
                /\ UNCHANGED <<isProcessing, processingProgress,
                               compressedResults, inFlight, lastAlert,
                               appEvents>>

\* handleRemoveImage(index), index 0-based, from the button of a listed image.
HandleRemoveImage ==
    \E index \in 0..(Len(selectedImages) - 1) :
        LET newImages == RemoveAt(selectedImages, index + 1)
        IN  /\ Len(appEvents) < MaxAppEvents
            /\ appEvents' = Append(appEvents,
                    [kind |-> "remove", files |-> <<>>, index |-> index])
            /\ selectedImages' = newImages
            /\ selectedImage' = IF Len(newImages) > 0
                                THEN newImages[1].dataUrl ELSE NullUrl
            /\ UNCHANGED <<isProcessing, processingProgress,
                           compressedResults, reads, inFlight, lastAlert>>

\* handleBatchCompress up to its await; the button is clickable only while
\* it is not disabled, so selectedImages is not empty here.
HandleBatchCompress ==
    /\ ~compressDisabled
    /\ Len(appEvents) < MaxAppEvents
    /\ appEvents' = Append(appEvents,
            [kind |-> "compress", files |-> <<>>, index |-> 0])
    /\ isProcessing' = TRUE
    /\ processingProgress' = [current |-> 0, total |-> Len(selectedImages)]
    /\ compressedResults' = <<>>
    /\ inFlight' = Append(inFlight, [images |-> selectedImages, done |-> 0])
    /\ UNCHANGED <<selectedImages, selectedImage, reads, lastAlert>>

\* processBatchImages reaches its next item and calls the progress callback:
\* setProcessingProgress({ current, total }).
BatchProgress ==
    \E b \in 1..Len(inFlight) :
        /\ inFlight[b].done < Len(inFlight[b].images)
        /\ processingProgress' =
                progressArgs(inFlight[b].done, Len(inFlight[b].images))
        /\ inFlight' = [inFlight EXCEPT ![b].done = @ + 1]
        /\ UNCHANGED <<selectedImages, selectedImage, isProcessing,
                       compressedResults, reads, lastAlert, appEvents>>

\* The await resumes with the report: setCompressedResults(results), then
\* the finally block.
BatchResolves ==
    \E b \in 1..Len(inFlight) :
        /\ inFlight[b].done = Len(inFlight[b].images)
        /\ compressedResults' = batchReport(inFlight[b].images)
        /\ isProcessing' = FALSE
        /\ inFlight' = RemoveAt(inFlight, b)
        /\ UNCHANGED <<selectedImages, selectedImage, processingProgress,
                       reads, lastAlert, appEvents>>

\* The await throws: the catch block alerts, then the finally block.
BatchRejects ==
    \E b \in 1..Len(inFlight) :
        /\ lastAlert' = "Error processing images: <message>"
        /\ isProcessing' = FALSE
        /\ inFlight' = RemoveAt(inFlight, b)
        /\ UNCHANGED <<selectedImages, selectedImage, processingProgress,
                       compressedResults, reads, appEvents>>

\* A step of a batch in flight.
BatchStep ==
    \/ BatchProgress /\ UNCHANGED exceptApp
    \/ BatchResolves /\ UNCHANGED exceptApp
    \/ BatchRejects /\ UNCHANGED exceptApp

NextApp ==
    \/ HandleImageSelect /\ UNCHANGED exceptApp
    \/ ReaderOnload /\ UNCHANGED exceptApp
    \/ HandleRemoveImage /\ UNCHANGED exceptApp
    \/ HandleBatchCompress /\ UNCHANGED exceptApp
    \/ BatchProgress /\ UNCHANGED exceptApp
    \/ BatchResolves /\ UNCHANGED exceptApp
    \/ BatchRejects /\ UNCHANGED exceptApp

\* The promise handleBatchCompress awaits settles: processBatchImages is a
\* finite loop over settled compressImage calls.
SpecApp == InitApp /\ [][NextApp]_vars /\ WF_vars(BatchStep)

(***************************************************************************)
(* Claims about the target size (checked under SpecCompress).              *)
(***************************************************************************)
Resolved == cpc = "resolved"

\* C1: with maintainAspectRatio = true, preserveDimensions = false and
\* positive maxWidth, maxHeight, the target size fits the box:
\* newWidth <= maxWidth and newHeight <= maxHeight.
C1_FitsMaxBox ==
    (Resolved /\ options.maintainAspectRatio /\ ~options.preserveDimensions
        /\ options.maxWidth > 0 /\ options.maxHeight > 0)
    => (cResult.width <= options.maxWidth /\ cResult.height <= options.maxHeight)

\* C2: with preserveDimensions = true the target size is the original size,
\* whatever maxWidth and maxHeight are.
C2_PreserveDimensions ==
    (Resolved /\ options.preserveDimensions)
    => (cResult.width = image.width /\ cResult.height = image.height)

\* C3: for positive maxWidth, maxHeight the target never has a zero or
\* negative dimension: newWidth >= 1 and newHeight >= 1.
C3_NoZeroDimension ==
    (Resolved /\ options.maxWidth > 0 /\ options.maxHeight > 0)
    => (cResult.width >= 1 /\ cResult.height >= 1)

\* C4: the calculation never upscales: an image that fits the box keeps its
\* size, and for every input newWidth <= width and newHeight <= height.
C4_NeverUpscales ==
    Resolved =>
        /\ (image.width <= options.maxWidth /\ image.height <= options.maxHeight)
              => (cResult.width = image.width /\ cResult.height = image.height)
        /\ cResult.width <= image.width
        /\ cResult.height <= image.height

\* C4 witness: a landscape image that is no wider than the box but taller
\* than it was resized, on the re-clamp path.
C4_Witness ==
    /\ Resolved
    /\ resizeEnabled(options.maxWidth, options.maxHeight)
    /\ options.maintainAspectRatio
    /\ image.width > image.height
    /\ image.width <= options.maxWidth
    /\ image.height > options.maxHeight
    /\ cResult.width < image.width

(***************************************************************************)
(* Claims about processBatchImages and createZipFromImages (under Spec).   *)
(***************************************************************************)
Returned == bpc = "returned"

Successes == { k \in 1..Len(results) : results[k].success }

\* The progress callback threw when called for item k.
progressThrewAt(k) == onProgress.present /\ onProgress.throwsAt = k

\* The transform of item k fails.
transformFails(k) == ~compressImage(images[k], k, compressionOptions).ok

\* C5: no exception escapes processBatchImages; entry k of the report
\* describes input k (same originalName) and, the progress callback having
\* returned for item k, has success = false exactly when the transform of
\* item k failed; the returned report is as long as the input.
C5_FailureIsolated ==
    /\ bpc # "threw"
    /\ Len(results) <= Len(images)
    /\ \A k \in 1..Len(results) :
          /\ results[k].originalName = images[k].name
          /\ ~progressThrewAt(k) => (results[k].success = ~transformFails(k))
    /\ Returned => Len(results) = Len(images)

\* C5 witness: a batch of three whose second item fails has returned.
C5_Witness ==
    /\ Returned
    /\ Len(images) = 3
    /\ onProgress.throwsAt = 0
    /\ transformFails(2) /\ ~transformFails(1) /\ ~transformFails(3)
    /\ ~results[2].success /\ results[1].success /\ results[3].success

\* C6: at every invocation onProgress(k, total) at least k results have
\* already been recorded, and (total, total) is emitted only once all items
\* are done.
C6_ProgressAfterAccounting ==
    \A e \in 1..Len(progressEvents) :
        /\ progressEvents[e].recorded >= progressEvents[e].current
        /\ progressEvents[e].current = progressEvents[e].total
              => progressEvents[e].recorded = Len(images)

\* C7: with a progress callback, the calls are (1, n), (2, n), ... in this
\* order, one per item whichever items fail, and when the batch has returned
\* there are exactly n of them, the last being (n, n).
C7_ProgressSequence ==
    onProgress.present =>
        /\ \A e \in 1..Len(progressEvents) :
              /\ progressEvents[e].current = e
              /\ progressEvents[e].total = Len(images)
        /\ Len(progressEvents) <= Len(images)
        /\ Returned => Len(progressEvents) = Len(images)

\* C7 witness: a returned batch of three with a failed item and three calls.
C7_Witness ==
    /\ Returned
    /\ onProgress.present
    /\ Len(images) = 3
    /\ \E k \in 1..3 : ~results[k].success
    /\ \E k \in 1..3 : results[k].success
    /\ Len(progressEvents) = 3
    /\ progressEvents[3].current = 3

\* C8: the archive has one entry per successful result, also when two
\* successful results carry the same fileName.
C8_DistinctEntryNames ==
    zipOutcome = "blob" => Cardinality(DOMAIN archive) = Cardinality(Successes)

\* C9: on a report with zero successful entries createZipFromImages returns
\* the EmptyArchive failure, not an archive.
C9_EmptyArchiveFailure ==
    (zipOutcome # "pending" /\ Successes = {}) => zipOutcome = "EmptyArchive"

\* C10: the entries of the archive are exactly the fileNames of the
\* successful results, and the bytes of every entry come from a successful
\* result of that name; no failed result contributes an entry.
C10_OnlySuccessfulEntries ==
    zipOutcome = "blob" =>
        /\ DOMAIN archive = { results[k].fileName : k \in Successes }
        /\ \A name \in DOMAIN archive :
              /\ archive[name] \in Successes
              /\ results[archive[name]].fileName = name

\* C10 witness: the report of three items whose second failed was archived
\* into two entries.
C10_Witness ==
    /\ zipOutcome = "blob"
    /\ Len(results) = 3
    /\ ~results[2].success
    /\ Successes = {1, 3}
    /\ Cardinality(DOMAIN archive) = 2

\* The configuration is outside the validated ranges (the format is none of
\* the three of the enum).
ConfigInvalid == compressionOptions.format \notin Formats

\* C11: with an invalid configuration the batch run raises InvalidConfig
\* before any processing: no progress callback is invoked, no item is
\* transformed and no report is produced.
C11_InvalidConfigFailsFast ==
    ConfigInvalid =>
        /\ progressEvents = <<>>
        /\ compressCalls = <<>>
        /\ results = <<>>
        /\ bpc # "returned"

\* C12: every entry of the report is populated exclusively: a success has
\* dataUrl, fileName and stats and no error; a failure has an error and
\* neither dataUrl nor fileName nor stats.
C12_ExclusiveFields ==
    \A k \in 1..Len(results) :
        IF results[k].success
        THEN /\ results[k].dataUrl # NullUrl
             /\ results[k].fileName # NullName
             /\ results[k].stats # NullStats
             /\ results[k].error = NullError
        ELSE /\ results[k].error # NullError
             /\ results[k].dataUrl = NullUrl
             /\ results[k].fileName = NullName
             /\ results[k].stats = NullStats

\* C12 witness: a returned report holding a success and a failure.
C12_Witness ==
    /\ Returned
    /\ Len(results) = 2
    /\ results[1].success
    /\ ~results[2].success

\* C14: an image whose bytes cannot be decoded yields a result with
\* success = false and the error "decode failed".
C14_DecodeFailedResult ==
    \A k \in 1..Len(results) :
        (transformFails(k) /\ ~progressThrewAt(k))
            => (~results[k].success /\ results[k].error = "decode failed")

\* The entry a successful result is downloaded as, on its own.
singleDownload(k) ==
    [fileName |-> results[k].fileName, kind |-> "image",
     image |-> results[k].dataUrl[2], entries |-> <<>>]

\* C18: handleDownloadZip delivers by the number of successful results:
\* none: nothing is downloaded and no archive is built; one: that result's
\* output under its fileName, without createZipFromImages; two or more:
\* createZipFromImages is called once on the full report and its archive is
\* downloaded.
C18_DeliveryByCount ==
    delivery.clicked =>
        /\ Successes = {} =>
              (delivery.downloads = <<>> /\ delivery.zipCalls = 0
                  /\ delivery.zipArgument = <<>>)
        /\ Cardinality(Successes) = 1 =>
              /\ delivery.zipCalls = 0
              /\ delivery.zipArgument = <<>>
              /\ \E k \in Successes : delivery.downloads = << singleDownload(k) >>
        /\ Cardinality(Successes) >= 2 =>
              /\ delivery.zipCalls = 1
              /\ delivery.zipArgument = results
              /\ zipOutcome = "blob"
              /\ Len(delivery.downloads) = 1
              /\ delivery.downloads[1].kind = "zip"
              /\ delivery.downloads[1].entries = archive

\* C18 witness: a report with two successes and a failure was delivered as
\* an archive.
C18_Witness ==
    /\ delivery.clicked
    /\ Len(results) = 3
    /\ Successes = {1, 3}
    /\ delivery.zipCalls = 1

\* C20: when onProgress throws for item k the exception does not leave
\* processBatchImages: item k is recorded as failed with the callback's
\* message, compressImage is never called for item k, and the loop goes on
\* to the end of the list.
C20_ProgressThrowIsolated ==
    /\ bpc # "threw"
    /\ \A k \in 1..Len(results) :
          progressThrewAt(k) =>
              /\ ~results[k].success
              /\ results[k].error = onProgress.message
              /\ \A c \in 1..Len(compressCalls) : compressCalls[c] # k
    /\ \A k \in 1..Len(images) :
          (progressThrewAt(k) /\ Returned) =>
              /\ Len(results) = Len(images)
              /\ \A j \in (k + 1)..Len(images) :
                    /\ \E c \in 1..Len(compressCalls) : compressCalls[c] = j
                    /\ results[j].success = ~transformFails(j)

\* C20 witness: the callback threw for item 2 of 3 and item 3 was compressed.
C20_Witness ==
    /\ Returned
    /\ Len(images) = 3
    /\ progressThrewAt(2)
    /\ ~results[2].success
    /\ results[3].success
    /\ compressCalls = <<1, 3>>

(***************************************************************************)
(* Further claims about the target size (checked under SpecCompress).      *)
(***************************************************************************)
Abs(x) == IF x < 0 THEN -x ELSE x

\* derived differs from other * num / den by at most one half.
WithinHalfPixel(derived, other, num, den) ==
    Abs(2 * derived * den - 2 * other * num) <= den

\* The image was resized with the aspect ratio kept.
ResizedKeepingRatio ==
    /\ Resolved
    /\ options.maintainAspectRatio
    /\ <<cResult.width, cResult.height>> # <<image.width, image.height>>

\* C15: with maintainAspectRatio = true a resized image keeps its aspect
\* ratio up to rounding: one dimension is the clamped one and the other,
\* derived from it, is within half a pixel of the exact proportional value,
\* in the landscape branch and in the portrait/square branch.
C15_AspectRatioKept ==
    ResizedKeepingRatio =>
        IF image.width > image.height
        THEN \/ /\ cResult.width = Min(image.width, options.maxWidth)
                /\ WithinHalfPixel(cResult.height, cResult.width,
                                   image.height, image.width)
             \/ /\ cResult.height = options.maxHeight
                /\ WithinHalfPixel(cResult.width, cResult.height,
                                   image.width, image.height)
        ELSE \/ /\ cResult.height = Min(image.height, options.maxHeight)
                /\ WithinHalfPixel(cResult.width, cResult.height,
                                   image.width, image.height)
             \/ /\ cResult.width = options.maxWidth
                /\ WithinHalfPixel(cResult.height, cResult.width,
                                   image.height, image.width)

\* C15 witness: a landscape image was resized and the derived dimension had
\* to be rounded (the exact proportional value is not an integer).
C15_Witness ==
    /\ ResizedKeepingRatio
    /\ image.width > image.height
    /\ cResult.height * image.width # cResult.width * image.height
    /\ cResult.height >= 1

\* C16: with maintainAspectRatio = false, preserveDimensions = false and
\* positive maxWidth, maxHeight the target is exactly
\* (min(width, maxWidth), min(height, maxHeight)).
C16_IndependentClamp ==
    (Resolved /\ ~options.maintainAspectRatio /\ ~options.preserveDimensions
        /\ options.maxWidth > 0 /\ options.maxHeight > 0)
    => /\ cResult.width = Min(image.width, options.maxWidth)
       /\ cResult.height = Min(image.height, options.maxHeight)

(***************************************************************************)
(* Claims about the derived file name (checked under SpecName).            *)
(***************************************************************************)
Derived == fileName # NullName

\* e is an extension: one or more characters, none of them '.' or '/'.
IsExtension(e) == Len(e) > 0 /\ \A k \in 1..Len(e) : e[k] \notin {".", "/"}

\* name = stem . e for an extension e.
SplitsAt(name, p) ==
    /\ name[p] = "."
    /\ IsExtension(SubSeq(name, p + 1, Len(name)))

\* The extension config.format implies.
ImpliedExtension(format) ==
    CASE format = "image/jpeg" -> <<"j", "p", "g">>
      [] format = "image/png"  -> <<"p", "n", "g">>
      [] format = "image/webp" -> <<"w", "e", "b", "p">>

\* C13: for a format of the selector, fileName is the source name with its
\* extension (the final '.' and the one or more characters after it, none of
\* them '.' or '/') stripped, followed by '.' and the extension the format
\* implies; a name with no such extension is the stem whole; an absent name
\* gives the stem image_<1-based index>.
C13_FileNameDerivation ==
    (Derived /\ nameCase.format \in Formats) =>
        LET name == nameCase.name
            suffix == <<".">> \o ImpliedExtension(nameCase.format)
        IN  IF name = <<>>
            THEN fileName = <<"i", "m", "a", "g", "e", "_">>
                              \o decimalString(nameCase.idx + 1) \o suffix
            ELSE /\ \A p \in 1..Len(name) :
                        SplitsAt(name, p) =>
                            fileName = SubSeq(name, 1, p - 1) \o suffix
                 /\ (\A p \in 1..Len(name) : ~SplitsAt(name, p)) =>
                        fileName = name \o suffix

\* C13 witness: a name with two dots was derived, so only the final
\* extension was stripped.
C13_Witness ==
    /\ Derived
    /\ nameCase.name = <<".", "a", ".", "a">>
    /\ nameCase.format = "image/webp"
    /\ fileName = <<".", "a", ".", "w", "e", "b", "p">>

(***************************************************************************)
(* Claims about the encoder invocation (checked under SpecEncode).         *)
(***************************************************************************)
BothEncoded == encoderCalls[1] # NoCall /\ encoderCalls[2] # NoCall

\* The call carries a quality.
CarriesQuality(call) ==
    IF call.fn = "canvas.toDataURL" THEN Len(call.args) = 2
    ELSE call.config.initialQuality # <<>>

\* C17: when format is PNG the encoder is invoked without the quality, so
\* two PNG transforms of one image that differ only in quality invoke the
\* encoder identically (and so produce the same bytes); for JPEG and WEBP
\* the call carries the configured quality.
C17_QualityOnlyForLossy ==
    BothEncoded =>
        IF encodeCase.format = "image/png"
        THEN /\ ~CarriesQuality(encoderCalls[1])
             /\ ~CarriesQuality(encoderCalls[2])
             /\ encoderCalls[1] = encoderCalls[2]
        ELSE /\ CarriesQuality(encoderCalls[1])
             /\ CarriesQuality(encoderCalls[2])

(***************************************************************************)
(* Claims about CompressionSettings (checked under SpecSettings).          *)
(***************************************************************************)
\* The last user event ticked the checkbox and every timeout has fired.
PreserveTickedAndDelivered ==
    lastChange.kind = "preserveTicked" /\ timeouts = <<>>

\* C19: after the user ticks 'Preserve Original Dimensions', customOptions
\* and the last options delivered to App have preserveDimensions = true,
\* maxWidth = 9999 and maxHeight = 9999, every other field as before.
C19_PreserveTickApplied ==
    PreserveTickedAndDelivered =>
        LET expected == [lastChange.before EXCEPT
                            !.preserveDimensions = TRUE,
                            !.maxWidth = 9999,
                            !.maxHeight = 9999]
        IN  /\ customOptions = expected
            /\ appOptions = expected

(***************************************************************************)
(* Claims about App (checked under SpecApp).                               *)
(***************************************************************************)
\* This step is the await of a batch resuming with its report.
ReportArrives ==
    \E b \in 1..Len(inFlight) :
        /\ inFlight[b].done = Len(inFlight[b].images)
        /\ compressedResults' = batchReport(inFlight[b].images)
        /\ inFlight' = RemoveAt(inFlight, b)

\* C21: every batch started by handleBatchCompress eventually sets
\* isProcessing back to false, whether processBatchImages resolves or
\* rejects; compressedResults is given entries only by the report of a batch
\* that resolves (starting a batch empties it, a rejection leaves it alone);
\* at most one batch is in flight at any time.
C21_BatchSettles ==
    /\ (inFlight # <<>>) ~> ~isProcessing
    /\ [](Len(inFlight) <= 1)
    /\ [][compressedResults' # compressedResults =>
             (compressedResults' = <<>> \/ ReportArrives)]_vars

\* C21 witness: one batch was rejected (alert, no results) and a later one
\* resolved, and isProcessing is false again.
C21_Witness ==
    /\ lastAlert = "Error processing images: <message>"
    /\ compressedResults # <<>>
    /\ Len(compressedResults) = Len(selectedImages)
    /\ ~isProcessing
    /\ inFlight = <<>>

\* C22: whenever compressedResults is non-empty it has one entry per element
\* of selectedImages, in the same order and with the same names.
C22_ResultsDescribeSelection ==
    compressedResults # <<>> =>
        /\ Len(compressedResults) = Len(selectedImages)
        /\ \A k \in 1..Len(compressedResults) :
               compressedResults[k].originalName = selectedImages[k].name

\* The image files of a select event.
imageFilesOf(e) == SelectSeq(e.files, isImageFile)

\* The last two user events were file selections with image files in them,
\* and every read has completed.
TwoSelectionsRead ==
    /\ Len(appEvents) >= 2
    /\ \A n \in {Len(appEvents) - 1, Len(appEvents)} :
           /\ appEvents[n].kind = "select"
           /\ imageFilesOf(appEvents[n]) # <<>>
    /\ reads = <<>>

\* C23: after two file selections made one after the other, once all reads
\* have completed selectedImages holds the image files of the later
\* selection, in the order they were selected, and the preview is the first
\* of them, whatever the order in which the reads completed.
C23_LaterSelectionWins ==
    TwoSelectionsRead =>
        LET later == imageFilesOf(appEvents[Len(appEvents)])
        IN  /\ Len(selectedImages) = Len(later)
            /\ \A j \in 1..Len(later) : selectedImages[j].name = later[j].name
            /\ selectedImage = readAsDataURL(later[1])

====
